---- MODULE Spec2Model ----
(***************************************************************************)
(* rel-ptr: a relative pointer RelPtr<T, I> stores a signed byte offset    *)
(* (self.0, of a Delta type I) and a descriptor (self.1, T::Data) and      *)
(* points to "its own address plus the offset".                            *)
(*                                                                         *)
(* The model is one RelPtr<[u8], I> living at address `this`, on a target  *)
(* whose pointers are PtrBits wide.  Addresses are unsigned machine words, *)
(* offsets are signed integers of the width of I.                          *)
(***************************************************************************)
EXTENDS Integers, FiniteSets

\* ------------------------------------------------------------------ target

\* Width of usize / isize / *const u8 on the modelled target, in bits
\* (size_of::<isize>() * 8).
PtrBits == 16

\* Radius of the window of addresses kept around every anchor address.
Near == 1

\* Longest slice pointee.
MaxLen == 1

\* Offsets that are not computed (the argument of RelPtr::from, the result of
\* an unchecked operation whose precondition is broken) are drawn from
\* -MaxArb..MaxArb.
MaxArb == 1

WordMod == 2 ^ PtrBits
MaxAddr == WordMod - 1
IsizeMax == 2 ^ (PtrBits - 1) - 1
IsizeMin == -(2 ^ (PtrBits - 1))

\* A reference is never null, so address 0 holds no object.
\*
\* Addresses the arguments of the Delta functions are drawn from: around the
\* bottom of the address space, 128 bytes above it (the range of an i8),
\* 100 and 200 bytes above it, around the middle of the address space (where
\* `as isize` changes sign) and at its top.
Anchors == {2, 130, 2 ^ (PtrBits - 1), MaxAddr}
Addr ==
    {a \in 1..MaxAddr : \E c \in Anchors : a >= c - Near /\ a <= c + Near} \cup {102, 202}

\* Addresses the pointer and its pointees are placed at.
Places == {1, 2, 102, 202, 2 ^ (PtrBits - 1) - 1, 2 ^ (PtrBits - 1), MaxAddr}
Lens == 0..MaxLen

\* ------------------------------------------------------------------- types

Zeroable == {"i8", "i16", "i32", "i64", "i128", "isize"}
NonZero == {"NonZeroI8", "NonZeroI16", "NonZeroI32", "NonZeroI64", "NonZeroI128", "NonZeroIsize"}
Types == Zeroable \cup NonZero

\* $base of impl_delta_nonzero!
Base(t) ==
    CASE t = "NonZeroI8" -> "i8"
      [] t = "NonZeroI16" -> "i16"
      [] t = "NonZeroI32" -> "i32"
      [] t = "NonZeroI64" -> "i64"
      [] t = "NonZeroI128" -> "i128"
      [] t = "NonZeroIsize" -> "isize"
      [] OTHER -> t

\* size_of::<Self>() * 8
Bits(t) ==
    CASE Base(t) = "i8" -> 8
      [] Base(t) = "i16" -> 16
      [] Base(t) = "i32" -> 32
      [] Base(t) = "i64" -> 64
      [] Base(t) = "i128" -> 128
      [] OTHER -> PtrBits

\* Self::min_value() as isize, Self::max_value() as isize.  Only evaluated
\* for types narrower than isize, where the cast changes nothing.
MinValue(t) == -(2 ^ (Bits(t) - 1))
MaxValue(t) == 2 ^ (Bits(t) - 1) - 1

\* v reduced to the two's complement range of `bits` bits.
Wrap(bits, v) ==
    LET m == 2 ^ bits
        r == v % m
    IN  IF r >= m \div 2 THEN r - m ELSE r

\* `del as _`: isize -> Self.  Sign extension for the types at least as wide
\* as isize, truncation for the narrower ones.
CastFromIsize(t, v) == IF Bits(t) >= PtrBits THEN v ELSE Wrap(Bits(t), v)

\* `self as isize`: Self -> isize.
CastToIsize(t, v) == IF Bits(t) <= PtrBits THEN v ELSE Wrap(PtrBits, v)

\* `a as usize as _` with the target type isize: the address reinterpreted
\* as a signed word.
AsIsize(a) == IF a > IsizeMax THEN a - WordMod ELSE a

\* isize::checked_sub
NoneI == [some |-> FALSE, v |-> 0]
SomeI(v) == [some |-> TRUE, v |-> v]
CheckedSub(x, y) == IF x - y >= IsizeMin /\ x - y <= IsizeMax THEN SomeI(x - y) ELSE NoneI

\* ------------------------------------------------------------------ errors

\* Result<Self, IntegerDeltaError>
Ok(v) == [kind |-> "Ok", v |-> v, a |-> 0, b |-> 0]
ErrSub(a, b) == [kind |-> "Sub", v |-> 0, a |-> a, b |-> b]
ErrConversion(del) == [kind |-> "Conversion", v |-> del, a |-> 0, b |-> 0]
ErrInvalidNonZero == [kind |-> "InvalidNonZero", v |-> 0, a |-> 0, b |-> 0]
NoResult == [kind |-> "none", v |-> 0, a |-> 0, b |-> 0]

\* ------------------------------------------------- Delta for i8 .. isize

\* SubZeroable with the bounds themselves rejected (>= and <= for > and <).
SubZeroableStrictBounds(t, a, b) ==
    LET c == CheckedSub(AsIsize(a), AsIsize(b))
    IN  IF ~c.some
        THEN ErrSub(a, b)
        ELSE IF Bits(t) < PtrBits /\ (MinValue(t) >= c.v \/ MaxValue(t) <= c.v)
             THEN ErrConversion(c.v)
             ELSE Ok(CastFromIsize(t, c.v))

\* impl_delta_zeroable!: Delta::sub(a, b)
SubZeroable(t, a, b) ==
    LET c == CheckedSub(AsIsize(a), AsIsize(b))
    IN  IF ~c.some
        THEN ErrSub(a, b)
        ELSE IF Bits(t) < PtrBits /\ (MinValue(t) > c.v \/ MaxValue(t) < c.v)
             THEN ErrConversion(c.v)
             ELSE Ok(CastFromIsize(t, c.v))

\* The values an operation whose precondition is broken may leave in a Self.
Arbitrary == (-MaxArb)..MaxArb

\* SubUncheckedZeroable with the operands exchanged (b - a).
SubUncheckedZeroableSwapped(t, a, b) ==
    LET c == CheckedSub(AsIsize(b), AsIsize(a))
    IN  IF c.some
        THEN {CastFromIsize(t, c.v)}
        ELSE Arbitrary \cup {CastFromIsize(t, Wrap(PtrBits, AsIsize(b) - AsIsize(a)))}

\* impl_delta_zeroable!: Delta::sub_unchecked(a, b), as the set of its possible
\* results.  unchecked_unwrap() of None is undefined behaviour; the cast of a
\* Some is the defined, truncating `as`.
SubUncheckedZeroable(t, a, b) ==
    LET c == CheckedSub(AsIsize(a), AsIsize(b))
    IN  IF c.some
        THEN {CastFromIsize(t, c.v)}
        ELSE Arbitrary \cup {CastFromIsize(t, Wrap(PtrBits, AsIsize(a) - AsIsize(b)))}

\* AddZeroable with the offset cast to i8 instead of isize.
AddZeroableTruncated(t, off, a) == (a + Wrap(8, off)) % WordMod

\* impl_delta_zeroable!: Delta::add(self, a), <*const u8>::offset: the address
\* of the result is the base address displaced by the offset, in the machine
\* word.
AddZeroable(t, off, a) == (a + CastToIsize(t, off)) % WordMod

\* impl Nullable for $type: const NULL
NULL == 0

\* --------------------------------------------- Delta for NonZeroI8 .. Isize

\* SubNonZero without the Some(0) arm.
SubNonZeroNoZeroCheck(t, a, b) ==
    LET c == CheckedSub(AsIsize(a), AsIsize(b))
    IN  IF ~c.some
        THEN ErrSub(a, b)
        ELSE IF Bits(t) < PtrBits /\ (MinValue(Base(t)) > c.v \/ MaxValue(Base(t)) < c.v)
             THEN ErrConversion(c.v)
             ELSE Ok(CastFromIsize(t, c.v))

\* impl_delta_nonzero!: Delta::sub(a, b)
SubNonZero(t, a, b) ==
    LET c == CheckedSub(AsIsize(a), AsIsize(b))
    IN  IF ~c.some
        THEN ErrSub(a, b)
        ELSE IF c.v = 0
             THEN ErrInvalidNonZero
             ELSE IF Bits(t) < PtrBits /\ (MinValue(Base(t)) > c.v \/ MaxValue(Base(t)) < c.v)
                  THEN ErrConversion(c.v)
                  ELSE Ok(CastFromIsize(t, c.v))

\* impl_delta_nonzero!: Delta::sub_unchecked(a, b), as the set of its possible
\* results.  new_unchecked(0) and unchecked_unwrap() of None are undefined
\* behaviour.
SubUncheckedNonZero(t, a, b) ==
    LET c == CheckedSub(AsIsize(a), AsIsize(b))
    IN  IF c.some /\ CastFromIsize(t, c.v) # 0
        THEN {CastFromIsize(t, c.v)}
        ELSE Arbitrary \cup {CastFromIsize(t, Wrap(PtrBits, AsIsize(a) - AsIsize(b)))}

\* impl_delta_nonzero!: Delta::add(self, a)
AddNonZero(t, off, a) == (a + CastToIsize(t, off)) % WordMod

\* ------------------------------------------------------- trait dispatch

\* I::sub, I::sub_unchecked, I::add for the offset type I = t
DeltaSub(t, a, b) == IF t \in NonZero THEN SubNonZero(t, a, b) ELSE SubZeroable(t, a, b)
DeltaSubUnchecked(t, a, b) ==
    IF t \in NonZero THEN SubUncheckedNonZero(t, a, b) ELSE SubUncheckedZeroable(t, a, b)
DeltaAdd(t, off, a) == IF t \in NonZero THEN AddNonZero(t, off, a) ELSE AddZeroable(t, off, a)

\* ------------------------------------------------ MetaData for slices [u8]

\* <[u8] as MetaData>::Data::default(): the length 0
DefaultData == 0

\* A reference or raw pointer to a slice: its address and its length.
Fat(addr, len) == [addr |-> addr, len |-> len]

\* T::decompose(value): the address of the data and the descriptor
Decompose(value) == [ptr |-> value.addr, meta |-> value.len]

\* T::compose(ptr, data): the raw pointer to T
Compose(addr, data) == Fat(addr, data)

\* ------------------------------------------------------------------ RelPtr

\* RelPtr(I, T::Data, PhantomData)
RelPtr(off, data) == [off |-> off, data |-> data]

\* RelPtr::null()
Null == RelPtr(NULL, DefaultData)

\* <RelPtr as From<I>>::from(i)
From(i) == RelPtr(i, DefaultData)

\* IsNull with <= for ==.
IsNullNonPositive(p) == p.off <= NULL

\* RelPtr::is_null(&self)
IsNull(p) == p.off = NULL

\* Set with `self.1 = meta` moved before the `?`.
SetMetaFirst(t, p, self, value) ==
    LET d == Decompose(value)
        r == DeltaSub(t, d.ptr, self)
    IN  IF r.kind = "Ok"
        THEN [r |-> r, p |-> RelPtr(r.v, d.meta)]
        ELSE [r |-> r, p |-> RelPtr(p.off, d.meta)]

\* Set without `self.1 = meta`.
SetKeepsMeta(t, p, self, value) ==
    LET d == Decompose(value)
        r == DeltaSub(t, d.ptr, self)
    IN  IF r.kind = "Ok"
        THEN [r |-> r, p |-> RelPtr(r.v, p.data)]
        ELSE [r |-> r, p |-> p]

\* RelPtr::set(&mut self, value): the Result and the pointer it leaves.
\* `?` returns before either field is assigned.
Set(t, p, self, value) ==
    LET d == Decompose(value)
        r == DeltaSub(t, d.ptr, self)
    IN  IF r.kind = "Ok"
        THEN [r |-> r, p |-> RelPtr(r.v, d.meta)]
        ELSE [r |-> r, p |-> p]

\* RelPtr::set_unchecked(&mut self, value): the pointers it may leave.
SetUnchecked(t, p, self, value) ==
    LET d == Decompose(value)
    IN  {RelPtr(o, d.meta) : o \in DeltaSubUnchecked(t, d.ptr, self)}

\* RelPtr::as_raw_unchecked(&self)
AsRawUnchecked(t, p, self) == Compose(DeltaAdd(t, p.off, self), p.data)

\* AsRaw without the is_null test.
AsRawNoNullCheck(t, p, self) == AsRawUnchecked(t, p, self)

\* RelPtr::as_raw(&self)
AsRaw(t, p, self) ==
    IF IsNull(p) THEN Compose(0, DefaultData) ELSE AsRawUnchecked(t, p, self)

\* Option<&T>
NoneRef == [some |-> FALSE, addr |-> 0, len |-> 0]
SomeRef(f) == [some |-> TRUE, addr |-> f.addr, len |-> f.len]

\* RelPtr::as_ref(&self) (as_mut and as_non_null have the same shape):
\* <*const T>::as_ref of as_raw(), None for the null raw pointer.
AsRef(t, p, self) ==
    LET raw == AsRaw(t, p, self)
    IN  IF raw.addr = 0 THEN NoneRef ELSE SomeRef(raw)

\* ------------------------------------------------------------------- state

VARIABLES
    ty,     \* the offset type I of the pointer
    this,   \* the address the RelPtr is stored at
    ptr,    \* the RelPtr: [off, data]
    value,  \* the pointee of the latest set / set_unchecked that stored an
            \* offset, at its current address; addr 0 when there is none
    est,    \* how the stored offset was established: by which operation,
            \* the offset it stored, whether the aggregate was moved since
    last    \* the latest call: its arguments and what it returned

vars == <<ty, this, ptr, value, est, last>>

NoValue == Fat(0, 0)
Call(op) ==
    [op |-> op, q |-> 0, n |-> 0, r |-> NoResult, raw |-> Fat(0, 0), ref |-> NoneRef,
     flag |-> FALSE]
Established(how, off) == [how |-> how, off |-> off, moved |-> FALSE]

\* The offsets RelPtr::from is given: any value of I, but never 0 in a NonZero.
FromOffsets(t) == IF t \in NonZero THEN Arbitrary \ {0} ELSE Arbitrary

\* The pointer is constructed by RelPtr::null() (nullable offset types) or by
\* RelPtr::from(i), somewhere in memory.
Init ==
    /\ ty \in Types
    /\ this \in Places
    /\ \/ /\ ty \in Zeroable
          /\ ptr = Null
          /\ est = Established("null", Null.off)
       \/ \E i \in FromOffsets(ty) :
             /\ ptr = From(i)
             /\ est = Established("from", i)
    /\ value = NoValue
    /\ last = Call("new")

\* self.set(&value) with the pointee at address q, of length n
DoSet(q, n) ==
    LET s == Set(ty, ptr, this, Fat(q, n))
    IN  /\ ptr' = s.p
        /\ last' = [Call("set") EXCEPT !.q = q, !.n = n, !.r = s.r]
        /\ IF s.r.kind = "Ok"
           THEN value' = Fat(q, n) /\ est' = Established("set", s.p.off)
           ELSE UNCHANGED <<value, est>>
        /\ UNCHANGED <<ty, this>>

\* self.set_unchecked(&value) with the pointee at address q, of length n
DoSetUnchecked(q, n) ==
    \E p \in SetUnchecked(ty, ptr, this, Fat(q, n)) :
        /\ ptr' = p
        /\ last' = [Call("set_unchecked") EXCEPT !.q = q, !.n = n]
        /\ value' = Fat(q, n)
        /\ est' = Established("set_unchecked", p.off)
        /\ UNCHANGED <<ty, this>>

\* self.is_null()
DoIsNull ==
    /\ ty \in Zeroable
    /\ last' = [Call("is_null") EXCEPT !.flag = IsNull(ptr)]
    /\ UNCHANGED <<ty, this, ptr, value, est>>

\* self.as_raw()
DoAsRaw ==
    /\ ty \in Zeroable
    /\ last' = [Call("as_raw") EXCEPT !.raw = AsRaw(ty, ptr, this)]
    /\ UNCHANGED <<ty, this, ptr, value, est>>

\* self.as_ref()
DoAsRef ==
    /\ ty \in Zeroable
    /\ last' = [Call("as_ref") EXCEPT !.ref = AsRef(ty, ptr, this)]
    /\ UNCHANGED <<ty, this, ptr, value, est>>

\* self.as_raw_unchecked()
DoAsRawUnchecked ==
    /\ last' = [Call("as_raw_unchecked") EXCEPT !.raw = AsRawUnchecked(ty, ptr, this)]
    /\ UNCHANGED <<ty, this, ptr, value, est>>

\* Relocate with the offset re-derived for the new place, as if it pointed to
\* where the pointee was.
RelocateRederived(to) ==
    /\ to # this
    /\ value.addr # 0 => value.addr + (to - this) \in Places
    /\ this' = to
    /\ ptr' = RelPtr(ptr.off - (to - this), ptr.data)
    /\ value' = IF value.addr = 0 THEN value ELSE Fat(value.addr + (to - this), value.len)
    /\ est' = [est EXCEPT !.moved = TRUE]
    /\ last' = Call("relocate")
    /\ UNCHANGED ty

\* The aggregate holding the pointer and its pointee is moved: a bulk copy
\* (Copy / Clone: `*self`) that puts the pointer at address to and moves the
\* pointee by the same displacement.  The fields are copied verbatim.
Relocate(to) ==
    /\ to # this
    /\ value.addr # 0 => value.addr + (to - this) \in Places
    /\ this' = to
    /\ ptr' = RelPtr(ptr.off, ptr.data)
    /\ value' = IF value.addr = 0 THEN value ELSE Fat(value.addr + (to - this), value.len)
    /\ est' = [est EXCEPT !.moved = TRUE]
    /\ last' = Call("relocate")
    /\ UNCHANGED ty

Next ==
    \/ \E q \in Places, n \in Lens : DoSet(q, n)
    \/ \E q \in Places, n \in Lens : DoSetUnchecked(q, n)
    \/ DoIsNull
    \/ DoAsRaw
    \/ DoAsRef
    \/ DoAsRawUnchecked
    \/ \E to \in Places : Relocate(to)

Spec == Init /\ [][Next]_vars

\* ------------------------------------------- the Delta functions on their own

\* I::sub(a, b) and I::sub_unchecked(a, b) applied to arguments a = value.addr
\* and b = this drawn from Addr, for every offset type.
InitDelta ==
    /\ ty \in Types
    /\ this \in Addr
    /\ \E a \in Addr : value = Fat(a, 0)
    /\ ptr = From(1)
    /\ est = Established("from", 1)
    /\ last = Call("new")

CallSub ==
    /\ last' = [Call("sub") EXCEPT !.r = DeltaSub(ty, value.addr, this)]
    /\ UNCHANGED <<ty, this, ptr, value, est>>

CallSubUnchecked ==
    /\ \E o \in DeltaSubUnchecked(ty, value.addr, this) :
          last' = [Call("sub_unchecked") EXCEPT !.r = Ok(o)]
    /\ UNCHANGED <<ty, this, ptr, value, est>>

NextDelta == CallSub \/ CallSubUnchecked

SpecDelta == InitDelta /\ [][NextDelta]_vars

\* ------------------------------------------------------------- properties

\* d is a value of the offset type t.  Every difference of two addresses is a
\* value of the types wider than a pointer.
Representable(t, d) ==
    Bits(t) > PtrBits \/ (d >= -(2 ^ (Bits(t) - 1)) /\ d <= 2 ^ (Bits(t) - 1) - 1)

\* d is a value of isize.
InIsize(d) == d >= IsizeMin /\ d <= IsizeMax

\* The pointer holds what a set that returned Ok stored, and has not been
\* moved since.
SetInPlace == ty \in Zeroable /\ est.how = "set" /\ ~est.moved

\* C1, as stated: whenever set returned Ok for a pointee at address Q whose
\* distance Q - P from the pointer is a value of I, the checked dereference at
\* P (as_raw, as_ref) yields the address Q.
C1_RoundTripEveryPlacement ==
    (SetInPlace /\ Representable(ty, value.addr - this)) =>
        /\ last.op = "as_raw" => last.raw.addr = value.addr
        /\ last.op = "as_ref" => last.ref.some /\ last.ref.addr = value.addr

\* C1, amended: the same for every pointee that is not at the pointer's own
\* address.
C1_RoundTrip ==
    (SetInPlace /\ Representable(ty, value.addr - this) /\ value.addr # this) =>
        /\ last.op = "as_raw" => last.raw.addr = value.addr
        /\ last.op = "as_ref" => last.ref.some /\ last.ref.addr = value.addr

C1_Witness ==
    /\ SetInPlace
    /\ Representable(ty, value.addr - this)
    /\ value.addr # this
    /\ last.op = "as_raw"
    /\ last.raw.addr = value.addr

\* C2: after a set that returned Ok and any number of moves of pointer and
\* pointee by the same displacement, the stored offset and descriptor are the
\* ones set stored, and as_raw_unchecked at the new place yields the pointee
\* at its new address.
C2_RelocationInvariance ==
    est.how = "set" =>
        /\ ptr.off = est.off
        /\ ptr.data = value.len
        /\ last.op = "as_raw_unchecked" => last.raw = Fat(value.addr, value.len)

C2_Witness ==
    /\ est.how = "set"
    /\ est.moved
    /\ value.addr # this
    /\ last.op = "as_raw_unchecked"
    /\ last.raw.addr = value.addr

\* C3: a set that returns Err leaves offset and descriptor as they were, a set
\* that returns Ok replaces both; and with an i8 offset a pointee 200 bytes
\* after a null pointer gives the conversion error and leaves the pointer null.
C3_SetStep ==
    last'.op = "set" =>
        /\ IF last'.r.kind = "Ok"
           THEN ptr' = RelPtr(last'.r.v, last'.n)
           ELSE /\ last'.r.kind \in {"Sub", "Conversion", "InvalidNonZero"}
                /\ ptr' = ptr
        /\ (ty = "i8" /\ ptr.off = 0 /\ AsIsize(last'.q) - AsIsize(this) = 200) =>
               last'.r.kind = "Conversion" /\ ptr'.off = 0

C3_FailureAtomicity == [][C3_SetStep]_vars

C3_Witness ==
    /\ last.op = "set"
    /\ last.r.kind = "Conversion"
    /\ est.how = "set"
    /\ last.n # ptr.data
    /\ last.q # value.addr

\* C4: the pointer null() makes is null; is_null() returns true exactly when
\* the stored offset is 0; and as_raw of a null pointer, wherever it is stored
\* and whatever its descriptor, is the null raw pointer, as_ref of it None.
C4_NullSentinel ==
    ty \in Zeroable =>
        /\ est.how = "null" => ptr.off = 0 /\ (last.op = "is_null" => last.flag)
        /\ last.op = "is_null" => (last.flag <=> ptr.off = 0)
        /\ (ptr.off = 0 /\ last.op = "as_raw") => last.raw = Fat(0, 0)
        /\ (ptr.off = 0 /\ last.op = "as_ref") => ~last.ref.some

C4_Witness ==
    /\ ptr.off = 0
    /\ ptr.data # 0
    /\ est.moved
    /\ last.op = "as_raw"
    /\ last.raw.addr = 0

\* C5: for an offset type narrower than isize, sub(a, b) whose native
\* difference is d returns Ok(d) when min_value <= d <= max_value and the
\* conversion error carrying d otherwise; with i8, 100 is stored and 200 is
\* refused.
C5_RangeBoundary ==
    LET d == AsIsize(value.addr) - AsIsize(this)
    IN  (last.op = "sub" /\ ty \in Zeroable /\ Bits(ty) < PtrBits /\ InIsize(d)) =>
            /\ IF d >= -(2 ^ (Bits(ty) - 1)) /\ d <= 2 ^ (Bits(ty) - 1) - 1
               THEN last.r = Ok(d)
               ELSE last.r = ErrConversion(d)
            /\ (ty = "i8" /\ d = 100) => last.r = Ok(100)
            /\ (ty = "i8" /\ d = 200) => last.r.kind = "Conversion"

C5_Witness ==
    /\ last.op = "sub"
    /\ ty = "i8"
    /\ value.addr - this = -129
    /\ last.r = ErrConversion(-129)

\* C6, as stated: sub(a, b) returns the subtraction error exactly when the
\* difference a - b of the two addresses is not a value of isize.
C6_SubOverflowIffTooFar ==
    last.op = "sub" => (last.r.kind = "Sub" <=> ~InIsize(value.addr - this))

\* C7: for a NonZero offset type sub(a, a) is the InvalidNonZero error, every
\* other sub(a, b) is what the zeroable type of the same width returns, and no
\* Ok carries 0.
C7_NonZeroVariant ==
    (last.op = "sub" /\ ty \in NonZero) =>
        /\ last.r = IF value.addr = this
                    THEN ErrInvalidNonZero
                    ELSE SubZeroable(Base(ty), value.addr, this)
        /\ ~(last.r.kind = "Ok" /\ last.r.v = 0)

C7_Witness ==
    /\ last.op = "sub"
    /\ ty \in NonZero
    /\ value.addr = this
    /\ last.r.kind = "InvalidNonZero"

\* C8: a set that returns Ok stores the length of its pointee; the pointer
\* as_raw_unchecked rebuilds has that length and the pointee's address; the
\* stored length stays that of the latest set that returned Ok, whatever
\* lengths later failed sets were given.
C8_DescriptorFidelity ==
    /\ (last.op = "set" /\ last.r.kind = "Ok") => ptr.data = last.n
    /\ est.how = "set" =>
           /\ ptr.data = value.len
           /\ last.op = "as_raw_unchecked" => last.raw = Fat(value.addr, value.len)

C8_Witness ==
    /\ est.how = "set"
    /\ last.op = "set"
    /\ last.r.kind # "Ok"
    /\ last.n # value.len
    /\ ptr.data = value.len
    /\ ptr.data > 0

\* C9, as stated: the pointer starts null, and from a set that returned Ok
\* on, through every later set, it is not null.
C9_NeverNullOnceSet ==
    ty \in Zeroable =>
        /\ est.how = "null" => IsNull(ptr)
        /\ est.how = "set" => ~IsNull(ptr)

\* C9, amended: the pointer starts null, and from a set that returned Ok on,
\* through every later failed set, it is null exactly when the pointee of that
\* set is at the pointer's own address.
C9_NoUnset ==
    ty \in Zeroable =>
        /\ est.how = "null" => IsNull(ptr)
        /\ est.how = "set" => (IsNull(ptr) <=> value.addr = this)

C9_Witness ==
    /\ ty \in Zeroable
    /\ est.how = "set"
    /\ value.addr # this
    /\ last.op = "set"
    /\ last.r.kind # "Ok"
    /\ ~IsNull(ptr)

\* C10: whenever set would return Ok, set_unchecked leaves the offset and the
\* descriptor set leaves.
C10_SetUncheckedAgrees ==
    LET s == Set(ty, ptr, this, Fat(last.q, last.n))
    IN  (last.op = "set_unchecked" /\ s.r.kind = "Ok") => ptr = s.p

C10_Witness ==
    /\ last.op = "set_unchecked"
    /\ Set(ty, ptr, this, Fat(last.q, last.n)).r.kind = "Ok"
    /\ ty = "i8"
    /\ ptr = RelPtr(100, MaxLen)

====
